---- MODULE Spec2Model ----
(***************************************************************************)
(* AvroHelper.h: AvroBinarySerializer and AvroBinaryDeserializer, two thin *)
(* wrappers over the Avro C++ memory streams, the binary encoder/decoder   *)
(* and the validating encoder/decoder.  The wrappers only forward, so the  *)
(* library objects they hold (MemoryOutputStream, StreamWriter, the        *)
(* validating parser, StreamReader) are modelled at the calls that use     *)
(* them.                                                                   *)
(***************************************************************************)
EXTENDS Integers, Sequences, FiniteSets, TLC

\* ---------------------------------------------------------------- bounds
MaxCalls == 2       \* Serialize calls made on one output stream
MaxResets == 1      \* Reset calls made on one serializer
MaxReads == 2       \* Deserialize calls made on one deserializer

ChunkSizes == {0, 2, 3}                 \* ChkSize arguments tried
Garbage == {0, 170}                     \* contents of a chunk as allocated
IntValues == {-1, 64}                   \* one-byte and two-byte varints
StringValues == {<<97>>}                \* "a"
NoSchema == <<>>
RecordSchema == <<"int", "string">>     \* record { int; string }
Schemas == {NoSchema, RecordSchema}

IntFields == [t : {"int"}, v : IntValues]
Fields == IntFields \cup [t : {"string"}, v : StringValues]
\* A serialized value is the sequence of its primitive fields: a primitive
\* is one field, a generated record struct is encoded field by field.
StringFields == [t : {"string"}, v : StringValues]
PairValues == {<<f, g>> : f \in IntFields, g \in StringFields}
                \cup {<<f, f>> : f \in {[t |-> "int", v |-> -1]}}
Values == {<<f>> : f \in Fields} \cup PairValues
ShapeOf(value) == [i \in 1..Len(value) |-> value[i].t]
Shapes == {ShapeOf(value) : value \in Values}

\* ------------------------------------------------------- binary encoding
\* avro::encodeZigzag32 / encodeInt32: zig-zag, then 7-bit groups, low first.
ZigZag(n) == IF n >= 0 THEN 2 * n ELSE (-2 * n) - 1

RECURSIVE Varint(_)
Varint(u) == IF u < 128 THEN <<u>> ELSE <<(u % 128) + 128>> \o Varint(u \div 128)

\* codec_traits<int32_t>::encode -> encodeInt; codec_traits<std::string>::encode
\* -> encodeString (length as a long, then the raw bytes).
EncodeField(f) ==
  IF f.t = "int" THEN Varint(ZigZag(f.v))
  ELSE Varint(ZigZag(Len(f.v))) \o f.v

RECURSIVE EncodeValue(_)
EncodeValue(value) ==
  IF value = <<>> THEN <<>> ELSE EncodeField(Head(value)) \o EncodeValue(Tail(value))

\* ------------------------------------------------- MemoryOutputStream
\* avro::memoryOutputStream(ChkSize): no chunk yet, nothing available.
NewStream(chk) == [chunkSize |-> chk, data |-> <<>>, available |-> 0, byteCount |-> 0]

\* MemoryOutputStream::next: hands out the rest of the last chunk, or a new
\* chunk (filled with whatever the allocator returned, g), and counts all of
\* it as written.
StreamNext(s, g) ==
  LET d == IF s.available = 0 THEN Append(s.data, [i \in 1..s.chunkSize |-> g]) ELSE s.data
      a == IF s.available = 0 THEN s.chunkSize ELSE s.available
  IN [s EXCEPT !.data = d, !.byteCount = s.byteCount + a, !.available = 0]

\* MemoryOutputStream::backup
StreamBackup(s, n) == [s EXCEPT !.available = s.available + n, !.byteCount = s.byteCount - n]

\* A flush that asks the stream for its next region.
StreamFlushTakesRegion(s) == StreamNext(s, 0)

\* MemoryOutputStream::flush does nothing.
StreamFlush(s) == s

\* OutputStream::byteCount
ByteCount(s) == s.byteCount

RECURSIVE Flatten(_)
Flatten(chunks) == IF chunks = <<>> THEN <<>> ELSE Head(chunks) \o Flatten(Tail(chunks))

\* An input stream that takes available_ for the length of the last chunk.
StreamBytesAvailable(s) ==
  SubSeq(Flatten(s.data), 1, (Len(s.data) - 1) * s.chunkSize + s.available)

\* memoryInputStream(const OutputStream&): all chunks, the last one up to
\* chunkSize - available.
StreamBytes(s) == SubSeq(Flatten(s.data), 1, Len(s.data) * s.chunkSize - s.available)

\* ------------------------------------------- StreamWriter / encoders
\* The encoder e_ is [out, rem, par]: the StreamWriter's stream (0 is
\* nullptr), end_ - next_, and the validating parser's position in the
\* schema's production (unused without a schema).
NewEncoder == [out |-> 0, rem |-> 0, par |-> 0]

\* StreamWriter::more: asks the stream for the next region; a stream of
\* chunk size 0 only ever hands out empty regions, so the loop never ends.
WriterMore(w, g) ==
  LET s == StreamNext(w.s, g)
  IN [s |-> s, rem |-> s.byteCount - w.s.byteCount]

\* A writer whose next_ stays in the first chunk.
WriterPutFirstChunk(w, c) ==
  LET o == w.s.chunkSize - w.rem + 1
  IN [s |-> [w.s EXCEPT !.data[1][o] = c], rem |-> w.rem - 1]

\* *next_++ = c, into the last chunk at offset chunkSize - (end_ - next_).
WriterPut(w, c) ==
  LET k == Len(w.s.data)
      o == w.s.chunkSize - w.rem + 1
  IN [s |-> [w.s EXCEPT !.data[k][o] = c], rem |-> w.rem - 1]

\* StreamWriter::writeBytes
RECURSIVE WriteBytes(_, _, _)
WriteBytes(w, b, g) ==
  IF b = <<>> THEN w
  ELSE LET w1 == IF w.rem = 0 THEN WriterMore(w, g) ELSE w
       IN WriteBytes(WriterPut(w1, Head(b)), Tail(b), g)

\* SimpleParser::advance on the production of the schema: the expected
\* terminal is popped on a match and stays on a mismatch; the root production
\* is pushed again when it is used up.
ParserAccepts(schema, par, kind) == schema = NoSchema \/ schema[par + 1] = kind
ParserAdvance(schema, par) == IF schema = NoSchema THEN par ELSE (par + 1) % Len(schema)

\* avro::encode(*e_, value): field by field, ValidatingEncoder::encodeX is
\* parser_.advance(X) and then base_->encodeX.  c is [s, rem, par, res].
RECURSIVE EncodeFields(_, _, _, _)
EncodeFields(c, schema, fields, g) ==
  IF fields = <<>> THEN c
  ELSE IF ~ParserAccepts(schema, c.par, Head(fields).t)
       THEN [c EXCEPT !.res = "SchemaViolation"]
  ELSE IF c.s.chunkSize = 0 /\ c.rem = 0
       THEN [c EXCEPT !.par = ParserAdvance(schema, c.par), !.res = "Hang"]
  ELSE LET w == WriteBytes([s |-> c.s, rem |-> c.rem], EncodeField(Head(fields)), g)
       IN EncodeFields([s |-> w.s, rem |-> w.rem,
                        par |-> ParserAdvance(schema, c.par), res |-> "ok"],
                       schema, Tail(fields), g)

\* AvroBinarySerializer::Serialize on the stream s the encoder e writes to.
SerializeOp(s, e, schema, value, g) ==
  EncodeFields([s |-> s, rem |-> e.rem, par |-> e.par, res |-> "ok"], schema, value, g)

\* AvroBinarySerializer::Buffer: a vector of byteCount() bytes, filled by
\* StreamReader::readBytes from an input stream over *out_; readBytes throws
\* when that stream ends first.
BufferOf(s) ==
  IF Len(StreamBytes(s)) < ByteCount(s)
  THEN [res |-> "EOF reached", val |-> <<>>]
  ELSE [res |-> "ok", val |-> SubSeq(StreamBytes(s), 1, ByteCount(s))]

\* A Buffer() that drains the stream it reads.
BufferStreamDrained(s) == NewStream(s.chunkSize)

\* What Buffer() leaves of the stream it read: memoryInputStream takes the
\* stream by const reference and the reader only copies out of its chunks.
BufferStream(s) == s

\* &data[0] on a vector of length 0 is outside operator[]'s contract: builds
\* without container checks compute an unused address and return, builds
\* with them stop the process.
BufferOutcomes(s) == IF ByteCount(s) = 0 THEN {"returns", "aborts"} ELSE {"returns"}

\* AvroBinarySerializer::Size
SizeOf(s) == ByteCount(s)

\* ------------------------------------------- StreamReader / decoders
\* The decoder d_ is [pos, par, schema]: the bytes of in_ consumed so far,
\* the validating parser's position, and the schema (NoSchema: plain
\* binaryDecoder).
NewDecoder(schema) == [pos |-> 0, par |-> 0, schema |-> schema]

UnZigZag(u) == IF u % 2 = 0 THEN u \div 2 ELSE -((u + 1) \div 2)

RECURSIVE Pow2(_)
Pow2(n) == IF n = 0 THEN 1 ELSE 2 * Pow2(n - 1)

\* A reader whose read() yields 0 at the end of the input.
RECURSIVE DecodeVarintZeroAtEnd(_, _, _, _)
DecodeVarintZeroAtEnd(in, pos, acc, shift) ==
  IF shift >= 64 THEN [res |-> "InvalidVarint", val |-> 0, pos |-> pos]
  ELSE IF pos >= Len(in) THEN [res |-> "ok", val |-> UnZigZag(acc), pos |-> pos]
  ELSE LET u == in[pos + 1]
           a == acc + (u % 128) * Pow2(shift)
       IN IF u >= 128 THEN DecodeVarintZeroAtEnd(in, pos + 1, a, shift + 7)
          ELSE [res |-> "ok", val |-> UnZigZag(a), pos |-> pos + 1]

\* BinaryDecoder::doDecodeLong: StreamReader::read throws at the end of the
\* input; r is [res, val, pos], acc and shift as in the loop.
RECURSIVE DecodeVarint(_, _, _, _)
DecodeVarint(in, pos, acc, shift) ==
  IF shift >= 64 THEN [res |-> "InvalidVarint", val |-> 0, pos |-> pos]
  ELSE IF pos >= Len(in) THEN [res |-> "TruncatedInput", val |-> 0, pos |-> pos]
  ELSE LET u == in[pos + 1]
           a == acc + (u % 128) * Pow2(shift)
       IN IF u >= 128 THEN DecodeVarint(in, pos + 1, a, shift + 7)
          ELSE [res |-> "ok", val |-> UnZigZag(a), pos |-> pos + 1]

\* BinaryDecoder::decodeInt: the long, range-checked.
DecodeInt(in, pos) ==
  LET r == DecodeVarint(in, pos, 0, 0)
  IN IF r.res = "ok" /\ (r.val < -2147483647 - 1 \/ r.val > 2147483647)
     THEN [r EXCEPT !.res = "OutOfRange"]
     ELSE r

\* BinaryDecoder::decodeString: the length, resize, then readBytes, which
\* copies what the input still has before it throws at the end of the input.
DecodeString(in, pos) ==
  LET l == DecodeInt(in, pos)
      have == IF Len(in) - l.pos < l.val THEN Len(in) - l.pos ELSE l.val
  IN IF l.res # "ok" THEN [res |-> l.res, val |-> <<>>, pos |-> l.pos, touched |-> FALSE]
     ELSE IF l.val < 0 THEN [res |-> "BadLength", val |-> <<>>, pos |-> l.pos, touched |-> FALSE]
     ELSE [res |-> IF have < l.val THEN "TruncatedInput" ELSE "ok",
           val |-> SubSeq(in, l.pos + 1, l.pos + have),
           pos |-> l.pos + have,
           touched |-> TRUE]

\* avro::decode(*d_, data_object): field by field, ValidatingDecoder::decodeX
\* is parser.advance(X) and then base->decodeX.  c is [pos, par, res, target].
RECURSIVE DecodeFields(_, _, _, _)
DecodeFields(c, schema, in, kinds) ==
  IF kinds = <<>> THEN c
  ELSE IF ~ParserAccepts(schema, c.par, Head(kinds))
       THEN [c EXCEPT !.res = "SchemaViolation"]
  ELSE LET par == ParserAdvance(schema, c.par)
       IN IF Head(kinds) = "int"
          THEN LET r == DecodeInt(in, c.pos)
               IN IF r.res = "ok"
                  THEN DecodeFields([pos |-> r.pos, par |-> par, res |-> "ok",
                                     target |-> Append(c.target, [t |-> "int", v |-> r.val])],
                                    schema, in, Tail(kinds))
                  ELSE [c EXCEPT !.pos = r.pos, !.par = par, !.res = r.res]
          ELSE LET r == DecodeString(in, c.pos)
                   tg == IF r.touched
                         THEN Append(c.target, [t |-> "string", v |-> r.val])
                         ELSE c.target
               IN IF r.res = "ok"
                  THEN DecodeFields([pos |-> r.pos, par |-> par, res |-> "ok", target |-> tg],
                                    schema, in, Tail(kinds))
                  ELSE [pos |-> r.pos, par |-> par, res |-> r.res, target |-> tg]

\* AvroBinaryDeserializer::Deserialize
DeserializeOp(d, in, kinds) ==
  DecodeFields([pos |-> d.pos, par |-> d.par, res |-> "ok", target |-> <<>>],
               d.schema, in, kinds)

\* -------------------------------------------------------------- state
VARIABLES
  heap,        \* the output streams allocated and not deleted, by address;
               \* Unreachable once no pointer to the stream is left
  out_,        \* AvroBinarySerializer::out_ (an address in heap)
  e_,          \* AvroBinarySerializer::e_
  ChunkSize_,  \* AvroBinarySerializer::ChunkSize_
  Schema,      \* the schema the serializer was constructed with, or NoSchema
  ret,         \* the serializer's last call: [op, res, val, n], val the
               \* vector and n the number it returned
  finished,    \* Finish was called and no Serialize or Reset since
  sent,        \* the values Serialize accepted since construction or Reset
  fails,       \* the Serialize calls that threw since construction or Reset
  nReset,      \* Reset calls so far
  pc,          \* "encoding", "hung" (Serialize never returned), "aborted"
               \* or "decoding"
  in_,         \* AvroBinaryDeserializer::in_: the bytes of the payload
  d_,          \* AvroBinaryDeserializer::d_: [pos, par, schema]
  dret,        \* how the last Deserialize call ended
  target,      \* data_object as the last Deserialize call left it
  reads        \* the shapes the Deserialize calls asked for, in order

encVars == <<heap, out_, e_, ChunkSize_, Schema, ret, finished, sent, fails, nReset>>
decVars == <<in_, d_, dret, target, reads>>
vars == <<encVars, pc, decVars>>

\* StreamWriter::reset, as called by Encoder::init(os): gives back the unused
\* part of the current region to the stream it came from, then points at os.
EncoderInit(h, e, os) ==
  [heap |-> IF e.out # 0 /\ e.rem # 0
            THEN [h EXCEPT ![e.out] = StreamBackup(h[e.out], e.rem)]
            ELSE h,
   e |-> [e EXCEPT !.out = os, !.rem = 0]]

Unreachable == "unreachable"

\* Both constructors: the stream, the encoder, init.  Nothing checks ChkSize.
Construct(schema, chk) ==
  LET i == EncoderInit(<<NewStream(chk)>>, NewEncoder, 1)
  IN /\ ChunkSize_ = chk
     /\ Schema = schema
     /\ out_ = 1
     /\ heap = i.heap
     /\ e_ = i.e

Init ==
  /\ \E schema \in Schemas, chk \in ChunkSizes : Construct(schema, chk)
  /\ ret = [op |-> "new", res |-> "ok", val |-> <<>>, n |-> 0]
  /\ finished = FALSE
  /\ sent = <<>>
  /\ fails = 0
  /\ nReset = 0
  /\ pc = "encoding"
  /\ in_ = <<>>
  /\ d_ = NewDecoder(NoSchema)
  /\ dret = "none"
  /\ target = <<>>
  /\ reads = <<>>

Serialize ==
  /\ pc = "encoding"
  /\ Len(sent) + fails < MaxCalls
  /\ \E value \in Values, g \in Garbage :
       LET c == SerializeOp(heap[e_.out], e_, Schema, value, g)
       IN /\ heap' = [heap EXCEPT ![e_.out] = c.s]
          /\ e_' = [e_ EXCEPT !.rem = c.rem, !.par = c.par]
          /\ ret' = [op |-> "Serialize", res |-> c.res, val |-> <<>>, n |-> 0]
          /\ sent' = IF c.res = "ok" THEN Append(sent, value) ELSE sent
          /\ fails' = IF c.res = "ok" THEN fails ELSE fails + 1
          /\ pc' = IF c.res = "Hang" THEN "hung" ELSE pc
  /\ finished' = FALSE
  /\ UNCHANGED <<out_, ChunkSize_, Schema, nReset, decVars>>

Finish ==
  /\ pc = "encoding"
  /\ heap' = [heap EXCEPT ![out_] = StreamFlush(heap[out_])]
  /\ ret' = [op |-> "Finish", res |-> "ok", val |-> <<>>, n |-> 0]
  /\ finished' = TRUE
  /\ UNCHANGED <<out_, e_, ChunkSize_, Schema, sent, fails, nReset, pc, decVars>>

Buffer ==
  /\ pc = "encoding"
  /\ \E outcome \in BufferOutcomes(heap[out_]) :
       IF outcome = "aborts"
       THEN /\ ret' = [op |-> "Buffer", res |-> "aborted", val |-> <<>>, n |-> 0]
            /\ pc' = "aborted"
            /\ UNCHANGED heap
       ELSE /\ ret' = [op |-> "Buffer", res |-> BufferOf(heap[out_]).res,
                                        val |-> BufferOf(heap[out_]).val, n |-> 0]
            /\ heap' = [heap EXCEPT ![out_] = BufferStream(heap[out_])]
            /\ UNCHANGED pc
  /\ UNCHANGED <<out_, e_, ChunkSize_, Schema, finished, sent, fails, nReset, decVars>>

Size ==
  /\ pc = "encoding"
  /\ ret' = [op |-> "Size", res |-> "ok", val |-> <<>>, n |-> SizeOf(heap[out_])]
  /\ UNCHANGED <<heap, out_, e_, ChunkSize_, Schema, finished, sent, fails, nReset, pc, decVars>>

\* Reset: flush, out_.release() (the stream is given up, not deleted), a new
\* stream, and e_->init on it.  After init nothing points at the old stream
\* any more: it stays allocated, its contents can no longer be read.
Reset ==
  /\ pc = "encoding"
  /\ nReset < MaxResets
  /\ LET flushed == [heap EXCEPT ![out_] = StreamFlush(heap[out_])]
         new == Len(heap) + 1
         i == EncoderInit(Append(flushed, NewStream(ChunkSize_)), e_, new)
     IN /\ heap' = [i.heap EXCEPT ![out_] = Unreachable]
        /\ e_' = i.e
        /\ out_' = new
  /\ ret' = [op |-> "Reset", res |-> "ok", val |-> <<>>, n |-> 0]
  /\ finished' = FALSE
  /\ sent' = <<>>
  /\ fails' = 0
  /\ nReset' = nReset + 1
  /\ UNCHANGED <<ChunkSize_, Schema, pc, decVars>>

\* AvroBinaryDeserializer(data, length) and AvroBinaryDeserializer(Schema,
\* data, length), over the vector Buffer() just returned; the caller passes
\* a length of at most its size.  Buffer() is read after Finish().
NewDeserializer ==
  /\ pc = "encoding"
  /\ finished
  /\ ret.op = "Buffer"
  /\ ret.res = "ok"
  /\ \E length \in 0..Len(ret.val), schema \in {NoSchema, Schema} :
       /\ in_' = SubSeq(ret.val, 1, length)
       /\ d_' = NewDecoder(schema)
  /\ pc' = "decoding"
  /\ UNCHANGED <<encVars, dret, target, reads>>

Deserialize ==
  /\ pc = "decoding"
  /\ Len(reads) < MaxReads
  /\ \E kinds \in Shapes :
       LET c == DeserializeOp(d_, in_, kinds)
       IN /\ d_' = [d_ EXCEPT !.pos = c.pos, !.par = c.par]
          /\ dret' = c.res
          /\ target' = c.target
          /\ reads' = Append(reads, kinds)
  /\ UNCHANGED <<encVars, pc, in_>>

Next == Serialize \/ Finish \/ Buffer \/ Size \/ Reset \/ NewDeserializer \/ Deserialize

Spec == Init /\ [][Next]_vars

\* ------------------------------------------------------------- claims
IsPrefix(a, b) == Len(a) <= Len(b) /\ SubSeq(b, 1, Len(a)) = a

\* The deserializer was built over the whole vector Buffer() returned, with
\* the serializer's schema, after a run of Serialize calls that all
\* succeeded on a newly constructed serializer, and has so far asked for the
\* shapes of the serialized values in their order.
PairedInOrder ==
  /\ pc = "decoding"
  /\ nReset = 0
  /\ fails = 0
  /\ in_ = ret.val
  /\ d_.schema = Schema
  /\ reads # <<>>
  /\ Len(reads) <= Len(sent)
  /\ \A i \in 1..Len(reads) : reads[i] = ShapeOf(sent[i])

\* C1: round trip.  Serialize V in order, Finish, build a deserializer over
\* Buffer() with length Size() and the same schema, and Deserialize once per
\* element with the same types in the same order: the i-th call succeeds and
\* yields exactly the i-th element of V.
RoundTrip == PairedInOrder => (dret = "ok" /\ target = sent[Len(reads)])

RoundTripWitness ==
  /\ PairedInOrder
  /\ Len(reads) = 2
  /\ ChunkSize_ = 2
  /\ Schema = RecordSchema
  /\ target = <<[t |-> "int", v |-> 64], [t |-> "string", v |-> <<97>>]>>

\* The encodings of the values, one after the other.
RECURSIVE EncodeAll(_)
EncodeAll(values) ==
  IF values = <<>> THEN <<>> ELSE EncodeValue(Head(values)) \o EncodeAll(Tail(values))

\* C2: ordering and exactness.  After Serialize calls that all succeeded and
\* Finish, Buffer() is exactly the concatenation of the encodings of the
\* serialized values in call order, and Size() is the sum of their lengths.
ExactBytes ==
  (finished /\ fails = 0 /\ ret.res = "ok") =>
    /\ (ret.op = "Buffer" => ret.val = EncodeAll(sent))
    /\ (ret.op = "Size" => ret.n = Len(EncodeAll(sent)))

\* C3: size consistency.  After Finish, the vector Buffer() returns has
\* exactly as many elements as Size() reports.
SizeConsistency ==
  (finished /\ ret.op = "Buffer" /\ ret.res # "aborted") =>
    (ret.res = "ok" /\ Len(ret.val) = SizeOf(heap[out_]))

SizeConsistencyWitness ==
  /\ finished
  /\ ret.op = "Buffer"
  /\ ret.res = "ok"
  /\ nReset = 1
  /\ ChunkSize_ > 0
  /\ Len(ret.val) > ChunkSize_

\* C4: idempotent Finish.  A Finish() that directly follows a Finish()
\* leaves what Buffer() and Size() return as the first one left it.
FinishIdempotent ==
  [][(finished /\ ret.op = "Finish" /\ Finish) =>
       /\ BufferOf(heap'[out_']) = BufferOf(heap[out_])
       /\ SizeOf(heap'[out_']) = SizeOf(heap[out_])]_vars

FinishIdempotentWitness ==
  /\ finished
  /\ ret.op = "Finish"
  /\ SizeOf(heap[out_]) > 0
  /\ e_.rem > 0

\* What a caller sees of a run of Serialize calls followed by Finish, Size
\* and Buffer, on the stream s with the encoder e: how each call ended, the
\* size and the vector.  A call that never returns ends the run.
RECURSIVE RunCalls(_, _, _, _, _)
RunCalls(s, e, schema, calls, g) ==
  IF calls = <<>> THEN [results |-> <<>>, s |-> s]
  ELSE LET c == SerializeOp(s, e, schema, Head(calls), g)
           r == RunCalls(c.s, [e EXCEPT !.rem = c.rem, !.par = c.par], schema, Tail(calls), g)
       IN IF c.res = "Hang" THEN [results |-> <<"Hang">>, s |-> c.s]
          ELSE [results |-> <<c.res>> \o r.results, s |-> r.s]

Observed(s, e, schema, calls, g) ==
  LET r == RunCalls(s, e, schema, calls, g)
      f == StreamFlush(r.s)
  IN [results |-> r.results, size |-> SizeOf(f), buffer |-> BufferOf(f)]

CallRuns == UNION {[1..n -> Values] : n \in 0..MaxCalls}

\* C5: Reset clears state.  Right after Reset(), Size() is 0 and every run
\* of Serialize calls followed by Finish ends each call the same way and
\* gives the same Size() and Buffer() as on a newly constructed serializer
\* with the same chunk size and schema (the chunks allocated alike).
ResetLikeNew ==
  ret.op = "Reset" =>
    /\ SizeOf(heap[out_]) = 0
    /\ \A calls \in CallRuns, g \in Garbage :
         Observed(heap[out_], e_, Schema, calls, g)
           = Observed(NewStream(ChunkSize_), EncoderInit(<<>>, NewEncoder, 1).e, Schema, calls, g)

\* C6: chunk-size validation.  No serializer exists whose chunk size is 0:
\* construction with ChkSize = 0 fails.
ChunkSizeValidated == ChunkSize_ > 0

\* C7: schema rejection preserves earlier bytes.  When Serialize fails with
\* SchemaViolation, what Buffer() returned before the call is a prefix of
\* what it returns after.
RejectionKeepsPrefix ==
  [][(Serialize /\ ret'.res = "SchemaViolation") =>
       IsPrefix(BufferOf(heap[out_]).val, BufferOf(heap'[out_']).val)]_vars

\* The position after one complete field of the kind at pos, -1 when the
\* input ends before the field does, -2 when the field is malformed.
RECURSIVE VarintEnd(_, _)
VarintEnd(in, pos) ==
  IF pos >= Len(in) THEN -1
  ELSE IF in[pos + 1] < 128 THEN pos + 1
  ELSE VarintEnd(in, pos + 1)

FieldEnd(in, pos, kind) ==
  LET e == VarintEnd(in, pos)
      l == DecodeVarint(in, pos, 0, 0).val
  IN IF e = -1 \/ kind = "int" THEN e
     ELSE IF l < 0 THEN -2
     ELSE IF e + l > Len(in) THEN -1
     ELSE e + l

RECURSIVE ShapeEnd(_, _, _)
ShapeEnd(in, pos, kinds) ==
  IF kinds = <<>> THEN pos
  ELSE LET e == FieldEnd(in, pos, Head(kinds))
       IN IF e < 0 THEN e ELSE ShapeEnd(in, e, Tail(kinds))

\* Fewer bytes remain than one complete value of the requested shape.
Incomplete(in, pos, kinds) == ShapeEnd(in, pos, kinds) = -1

\* The requested kinds are what the deserializer's schema expects next.
ShapeFits(schema, par, kinds) ==
  \A i \in 1..Len(kinds) :
    schema = NoSchema \/ schema[((par + i - 1) % Len(schema)) + 1] = kinds[i]

Requested == reads'[Len(reads')]

\* C8 as stated: whenever fewer bytes remain than one complete value of the
\* requested type, and on every call after a TruncatedInput failure,
\* Deserialize fails with TruncatedInput.
TruncationAlways ==
  [][Deserialize =>
       ((Incomplete(in_, d_.pos, Requested) \/ dret = "TruncatedInput")
          => dret' = "TruncatedInput")]_vars

\* C8 as amended: in those cases Deserialize never returns a value; it fails
\* with TruncatedInput when the deserializer has no schema or the requested
\* types are what its schema expects next, and otherwise with TruncatedInput
\* or SchemaViolation.
TruncationUnlessRejected ==
  [][Deserialize =>
       ((Incomplete(in_, d_.pos, Requested) \/ dret = "TruncatedInput")
          => /\ dret' \in {"TruncatedInput", "SchemaViolation"}
             /\ ShapeFits(d_.schema, d_.par, Requested) => dret' = "TruncatedInput")]_vars

TruncationWitness ==
  /\ pc = "decoding"
  /\ d_.schema = NoSchema
  /\ in_ = <<128>>
  /\ Len(reads) = 2
  /\ dret = "TruncatedInput"
  /\ d_.pos = Len(in_)

\* C10: single-buffer ownership.  The output streams allocated for the
\* serializer and not deleted are exactly the one it owns.
OneLiveBuffer == DOMAIN heap = {out_}

\* C9: Buffer() and Size() are read-only.  Neither changes the serializer
\* (its stream, its encoder, its chunk size), a Buffer() that directly
\* follows a Buffer() returns an equal vector, and Size() is the same before
\* and after.
ReadOnlyAccessors ==
  [][(Buffer \/ Size) =>
       /\ UNCHANGED <<heap, out_, e_, ChunkSize_, Schema>>
       /\ SizeOf(heap'[out_']) = SizeOf(heap[out_])
       /\ (ret.op = "Buffer" /\ ret'.op = "Buffer" /\ ret'.res # "aborted") => ret' = ret]_vars

ReadOnlyAccessorsWitness ==
  /\ ret.op = "Buffer"
  /\ ret.res = "ok"
  /\ Len(ret.val) > 0
  /\ e_.rem > 0
  /\ ~finished
====
